---- MODULE Spec2Model ----
(***************************************************************************)
(* A model of data_util.py of 247-seq2seq: the transcript parser, the      *)
(* word-pair generator, the deduplicator, the vocabulary filter, the       *)
(* boundary annotator, the window validity predicate, the example dataset  *)
(* and the batch collator.                                                 *)
(*                                                                         *)
(* Python lists are mutable objects, so token lists live in a heap: a      *)
(* tuple's tok field is a reference (an index of heap) and two tuples      *)
(* holding the same reference share one list.                              *)
(***************************************************************************)
EXTENDS Integers, Sequences, FiniteSets, TLC

VARIABLES
    pc,          \* position of the component under check
    heap,        \* token lists: reference -> sequence of token ids
    examples,    \* generate_wordpairs' argument: sequence of utterance tuples
    my_grams,    \* generate_wordpairs' my_grams
    k,           \* generate_wordpairs' loop: index of the window's first element
    emitted,     \* history: what each finished iteration appended to my_grams
    grams,       \* remove_duplicates' result, remove_oovs' argument
    kept,        \* remove_oovs' result
    data_tag,    \* remove_oovs' data_tag
    win,         \* test_for_bad_window's arguments: start, stop, shape[0], window
    bad,         \* test_for_bad_window's result
    signals,     \* Brain2enDataset: len(signals[i]) for each input
    labels,      \* Brain2enDataset: len(labels[i]) for each input
    ds,          \* the Brain2enDataset object
    idx,         \* __getitem__'s argument
    got,         \* __getitem__'s outcome
    lines,       \* return_examples: the file's lines, each split on delim
    parsed,      \* return_examples' outcome
    elect,       \* return_electrode_array's elect
    files,       \* the electrode files on disk: electrode -> length of its series
    optimized,   \* whether the interpreter runs with -O (assert statements removed)
    warnings,    \* the electrodes get_electrode printed a warning for
    ecogs,       \* return_electrode_array's outcome
    batch,       \* MyCollator.__call__'s argument
    collated     \* MyCollator.__call__'s result

genVars == <<heap, examples, my_grams, k, emitted>>
pipeVars == <<grams, kept, data_tag>>
winVars == <<win, bad>>
dsVars == <<signals, labels, ds, idx, got>>
parseVars == <<lines, parsed>>
elecVars == <<elect, files, optimized, warnings, ecogs>>
colVars == <<batch, collated>>
vars == <<pc, genVars, pipeVars, winVars, dsVars, parseVars, elecVars, colVars>>

(***************************************************************************)
(* Vocabulary ids of the special symbols and of two ordinary pieces.       *)
(***************************************************************************)
UNK == 0
START == 1
STOP == 2
PAD == 3
WordA == 4
WordB == 5
VocabSize == 6

(***************************************************************************)
(* Bounds of the model.                                                    *)
(***************************************************************************)
MaxUtt == 3
MaxPipeUtt == 3
MaxGrams == 3
MaxT == 2
MaxN == 3
MaxLines == 2
MaxElect == 2
NumElectrodes == 3
MaxBatch == 2
MaxLabel == 5

None == "None"

\* The sequences over S of length lo..hi, as functions on 1..n.
SeqsOf(S, lo, hi) == UNION {[1..n -> S] : n \in lo..hi}

(***************************************************************************)
(* generate_wordpairs                                                      *)
(***************************************************************************)
GenTokLists == {<<WordA>>, <<WordB>>, <<WordA, WordB>>, <<WordA, WordB, WordA>>}
GenOnsets == {0, 1}
GenDurations == {1, 3}
GenShapes ==
    {[toks |-> t, spk |-> s, on |-> o, off |-> o + d] :
        t \in GenTokLists, s \in BOOLEAN, o \in GenOnsets, d \in GenDurations}

\* The tuple (tokens, is_target_speaker, onset, offset); tokens is a reference.
Tuple(ref, spk, on, off) == [tok |-> ref, spk |-> spk, on |-> on, off |-> off]

\* The utterance list built from shapes: utterance i owns the list at heap[i].
HeapOf(shapes) == [i \in 1..Len(shapes) |-> shapes[i].toks]
ExamplesOf(shapes) ==
    [i \in 1..Len(shapes) |-> Tuple(i, shapes[i].spk, shapes[i].on, shapes[i].off)]

\* GenBody with the onset test weakened to <=.
GenBodyLeq(first, second, g, h) ==
    LET len1 == Len(h[first.tok])
        len2 == Len(h[second.tok])
        g1 == IF first.spk /\ len1 = 2 THEN Append(g, first) ELSE g
        g2 == IF second.spk /\ len2 = 2 THEN Append(g1, second) ELSE g1
    IN  IF (first.spk /\ second.spk) /\ (len1 = 1 /\ len2 = 1)
           /\ first.on <= second.on
        THEN [grams |-> Append(g2, Tuple(Len(h) + 1, TRUE, first.on, second.off)),
              heap |-> Append(h, h[first.tok] \o h[second.tok])]
        ELSE [grams |-> g2, heap |-> h]

\* GenBody with the second-utterance rule applied before the first-utterance rule.
GenBodySwapped(first, second, g, h) ==
    LET len1 == Len(h[first.tok])
        len2 == Len(h[second.tok])
        g1 == IF second.spk /\ len2 = 2 THEN Append(g, second) ELSE g
        g2 == IF first.spk /\ len1 = 2 THEN Append(g1, first) ELSE g1
    IN  IF (first.spk /\ second.spk) /\ (len1 = 1 /\ len2 = 1)
           /\ first.on < second.on
        THEN [grams |-> Append(g2, Tuple(Len(h) + 1, TRUE, first.on, second.off)),
              heap |-> Append(h, h[first.tok] \o h[second.tok])]
        ELSE [grams |-> g2, heap |-> h]

\* One iteration of the loop over zip(examples, examples[1:]).
GenBody(first, second, g, h) ==
    LET len1 == Len(h[first.tok])
        len2 == Len(h[second.tok])
        g1 == IF first.spk /\ len1 = 2 THEN Append(g, first) ELSE g
        g2 == IF second.spk /\ len2 = 2 THEN Append(g1, second) ELSE g1
    IN  IF (first.spk /\ second.spk) /\ (len1 = 1 /\ len2 = 1)
           /\ first.on < second.on
        THEN [grams |-> Append(g2, Tuple(Len(h) + 1, TRUE, first.on, second.off)),
              heap |-> Append(h, h[first.tok] \o h[second.tok])]
        ELSE [grams |-> g2, heap |-> h]

\* The variables of the components a specification leaves alone.
GenIdle ==
    /\ heap = <<>>
    /\ examples = <<>>
    /\ my_grams = <<>>
    /\ k = 1
    /\ emitted = <<>>
PipeIdle ==
    /\ grams = <<>>
    /\ kept = <<>>
    /\ data_tag = None
WinIdle ==
    /\ win = None
    /\ bad = None
DsIdle ==
    /\ signals = <<>>
    /\ labels = <<>>
    /\ ds = None
    /\ idx = None
    /\ got = None
ParseIdle ==
    /\ lines = <<>>
    /\ parsed = None
ElecIdle ==
    /\ elect = <<>>
    /\ files = None
    /\ optimized = FALSE
    /\ warnings = None
    /\ ecogs = None
ColIdle ==
    /\ batch = <<>>
    /\ collated = None

\* generate_wordpairs is called with up to maxLen utterances drawn from shapes.
GenCalled(shapeSet, maxLen) ==
    /\ pc = "gen"
    /\ \E n \in 0..maxLen : \E shapes \in [1..n -> shapeSet] :
          /\ heap = HeapOf(shapes)
          /\ examples = ExamplesOf(shapes)
    /\ my_grams = <<>>
    /\ k = 1
    /\ emitted = <<>>

GenInit == GenCalled(GenShapes, MaxUtt) /\ PipeIdle /\ WinIdle /\ DsIdle
        /\ ParseIdle /\ ElecIdle /\ ColIdle

\* for first, second in zip(examples, examples[1:]): the window (k, k+1)
GenStep ==
    /\ pc = "gen"
    /\ k < Len(examples)
    /\ LET r == GenBody(examples[k], examples[k + 1], my_grams, heap)
       IN  /\ my_grams' = r.grams
           /\ heap' = r.heap
    /\ k' = k + 1
    /\ emitted' = Append(emitted, SubSeq(my_grams', Len(my_grams) + 1, Len(my_grams')))
    /\ UNCHANGED <<pc, examples, pipeVars, winVars, dsVars, parseVars, elecVars, colVars>>

\* return my_grams
GenReturn ==
    /\ pc = "gen"
    /\ k >= Len(examples)
    /\ pc' = "gen_done"
    /\ UNCHANGED <<genVars, pipeVars, winVars, dsVars, parseVars, elecVars, colVars>>

GenNext == GenStep \/ GenReturn
SpecGen == GenInit /\ [][GenNext]_vars

(***************************************************************************)
(* Claims about generate_wordpairs                                         *)
(***************************************************************************)
NumUtt == Len(examples)
\* The token list utterance i was built with (input lists are never mutated
\* by the generator).
Toks(i) == heap[examples[i].tok]
IsTwoTokenTarget(i) == examples[i].spk /\ Len(Toks(i)) = 2
MergeCond(i) ==
    /\ examples[i].spk /\ examples[i + 1].spk
    /\ Len(Toks(i)) = 1 /\ Len(Toks(i + 1)) = 1
    /\ examples[i].on < examples[i + 1].on
\* A gram is one of the input tuples exactly when its list is an input list.
IsMerged(g) == g.tok > NumUtt
MergedIn(s) == {j \in 1..Len(s) : IsMerged(s[j])}

\* C1: for every window (i, i+1) the loop has finished, exactly one merged
\* example (first.tokens ++ second.tokens, true, first.onset, second.offset)
\* was emitted for it if both utterances are target-speaker, both have exactly
\* one token and first.onset < second.onset; otherwise none was.
C1_MergeRule ==
    /\ Len(emitted) = k - 1
    /\ \A i \in 1..Len(emitted) :
          IF MergeCond(i)
          THEN /\ Cardinality(MergedIn(emitted[i])) = 1
               /\ \A j \in MergedIn(emitted[i]) :
                     /\ heap[emitted[i][j].tok] = Toks(i) \o Toks(i + 1)
                     /\ emitted[i][j].spk = TRUE
                     /\ emitted[i][j].on = examples[i].on
                     /\ emitted[i][j].off = examples[i + 1].off
          ELSE MergedIn(emitted[i]) = {}

\* A window with two distinct single tokens and increasing onsets has merged,
\* and a window with equal onsets has been passed without a merge.
C1_Witness ==
    /\ pc = "gen_done"
    /\ \E i \in 1..Len(emitted) :
          MergeCond(i) /\ Toks(i) # Toks(i + 1) /\ Cardinality(MergedIn(emitted[i])) = 1
    /\ \E i \in 1..Len(emitted) :
          /\ examples[i].spk /\ examples[i + 1].spk
          /\ Len(Toks(i)) = 1 /\ Len(Toks(i + 1)) = 1
          /\ examples[i].on = examples[i + 1].on
          /\ MergedIn(emitted[i]) = {}

\* What the three rules emit for window (i, i+1), in the order first-rule,
\* second-rule, merge-rule; the merged tuple is compared by its content.
Content(g) == [toks |-> heap[g.tok], spk |-> g.spk, on |-> g.on, off |-> g.off]
ExpectedWindow(i) ==
    (IF IsTwoTokenTarget(i) THEN <<Content(examples[i])>> ELSE <<>>)
    \o (IF IsTwoTokenTarget(i + 1) THEN <<Content(examples[i + 1])>> ELSE <<>>)
    \o (IF MergeCond(i)
        THEN <<[toks |-> Toks(i) \o Toks(i + 1), spk |-> TRUE,
                on |-> examples[i].on, off |-> examples[i + 1].off]>>
        ELSE <<>>)
RECURSIVE ExpectedUpTo(_)
ExpectedUpTo(w) == IF w <= 0 THEN <<>> ELSE ExpectedUpTo(w - 1) \o ExpectedWindow(w)
Occurrences(i) == {j \in 1..Len(my_grams) : my_grams[j] = examples[i]}

\* C9: when the generator returns, a target-speaker utterance with exactly 2
\* tokens at position i has been emitted unchanged twice if 0 < i < n-1 (last
\* of window (i-1, i), then first of window (i, i+1), adjacent in the output),
\* once at position 0 or n-1 when n >= 2 and never when n <= 1; the output is
\* the concatenation over the windows, left to right, of the emissions in the
\* order first-rule, second-rule, merge-rule, and is empty for n <= 1.
C9_SlidingWindow ==
    pc = "gen_done" =>
        /\ [j \in 1..Len(my_grams) |-> Content(my_grams[j])] = ExpectedUpTo(NumUtt - 1)
        /\ NumUtt <= 1 => my_grams = <<>>
        /\ \A i \in 1..NumUtt : IsTwoTokenTarget(i) =>
              /\ Cardinality(Occurrences(i)) =
                    IF NumUtt <= 1 THEN 0
                    ELSE IF 1 < i /\ i < NumUtt THEN 2 ELSE 1
              /\ (1 < i /\ i < NumUtt) =>
                    /\ emitted[i - 1][Len(emitted[i - 1])] = examples[i]
                    /\ emitted[i][1] = examples[i]
                    /\ \E j \in Occurrences(i) : Occurrences(i) = {j, j + 1}

\* An interior two-token target utterance was emitted twice, and an utterance
\* at an end once.
C9_Witness ==
    /\ pc = "gen_done"
    /\ NumUtt = 3
    /\ IsTwoTokenTarget(1) /\ IsTwoTokenTarget(2)
    /\ Cardinality(Occurrences(2)) = 2
    /\ Cardinality(Occurrences(1)) = 1

(***************************************************************************)
(* Brain2enDataset                                                         *)
(***************************************************************************)
MaxSegLen == 384
MinLabelLen == 4
MaxLabelLen == 128

\* The skip test with the segment bound off by one.
SkippedAtBound(segLen, labLen) ==
    segLen >= MaxSegLen \/ labLen < MinLabelLen \/ labLen > MaxLabelLen

\* if i[1] > 384 or i[2] < 4 or i[2] > 128
Skipped(segLen, labLen) ==
    segLen > MaxSegLen \/ labLen < MinLabelLen \/ labLen > MaxLabelLen

(***************************************************************************)
(* remove_duplicates, remove_oovs, add_begin_end_tokens                    *)
(***************************************************************************)
\* The data-frame row of a gram after df[0] is expanded into fw and sw.
Row(g, h) ==
    [fw |-> h[g.tok][1], sw |-> h[g.tok][2], spk |-> g.spk, on |-> g.on, off |-> g.off]

\* drop_duplicates keeps the first of equal rows, in the frame's order.
FirstOfItsRow(g, h, i) == \A j \in 1..(i - 1) : Row(g[j], h) # Row(g[i], h)

\* remove_duplicates without drop_duplicates: the grams come back as they are.
RemoveDuplicatesNone(g, h) == [grams |-> g, heap |-> h]

\* remove_duplicates on a non-empty list of two-token grams: each surviving
\* row gets a new token list, built by df[['fw', 'sw']].values.tolist().
RECURSIVE RemoveDuplicatesFrom(_, _, _, _)
RemoveDuplicatesFrom(g, h, i, acc) ==
    IF i > Len(g) THEN acc
    ELSE IF FirstOfItsRow(g, h, i)
         THEN RemoveDuplicatesFrom(g, h, i + 1,
                [grams |-> Append(acc.grams,
                             Tuple(Len(acc.heap) + 1, g[i].spk, g[i].on, g[i].off)),
                 heap |-> Append(acc.heap, <<h[g[i].tok][1], h[g[i].tok][2]>>)])
         ELSE RemoveDuplicatesFrom(g, h, i + 1, acc)
RemoveDuplicates(g, h) == RemoveDuplicatesFrom(g, h, 1, [grams |-> <<>>, heap |-> h])

Contains(list, x) == \E p \in 1..Len(list) : list[p] = x

\* remove_oovs with the train rule under every data_tag.
RemoveOovsAlwaysTrain(g, h, tag) ==
    LET NoUnk(x) == ~Contains(h[x.tok], UNK)
    IN  SelectSeq(g, NoUnk)

RemoveOovs(g, h, tag) ==
    LET NoUnk(x) == ~Contains(h[x.tok], UNK)
        NotAllUnk(x) == h[x.tok] # <<UNK, UNK>>
    IN  IF tag = "train" THEN SelectSeq(g, NoUnk) ELSE SelectSeq(g, NotAllUnk)

\* add_begin_end_tokens: the list behind ref is changed in place.
AddBeginEndTokens(h, ref) == [h EXCEPT ![ref] = <<START>> \o h[ref] \o <<STOP>>]

RECURSIVE AnnotateFrom(_, _, _)
AnnotateFrom(h, g, i) ==
    IF i > Len(g) THEN h ELSE AnnotateFrom(AddBeginEndTokens(h, g[i].tok), g, i + 1)

DataTags == {"train", "eval", "test"}

PipeTokLists == {<<UNK>>, <<WordA>>, <<UNK, WordA>>, <<WordA, WordA>>}
PipeShapes ==
    {[toks |-> t, spk |-> s, on |-> o, off |-> o + 1] :
        t \in PipeTokLists, s \in BOOLEAN, o \in GenOnsets}

PipeInit == GenCalled(PipeShapes, MaxPipeUtt) /\ PipeIdle /\ WinIdle /\ DsIdle
        /\ ParseIdle /\ ElecIdle /\ ColIdle

\* grams = remove_duplicates(my_grams); an empty frame has no column 0.
Dedup ==
    /\ pc = "gen_done"
    /\ IF my_grams = <<>>
       THEN /\ pc' = "error"
            /\ UNCHANGED <<heap, grams>>
       ELSE LET r == RemoveDuplicates(my_grams, heap)
            IN  /\ grams' = r.grams
                /\ heap' = r.heap
                /\ pc' = "deduped"
    /\ UNCHANGED <<examples, my_grams, k, emitted, kept, data_tag, winVars, dsVars, parseVars, elecVars, colVars>>

\* kept = remove_oovs(grams, vocabulary, data_tag)
FilterOovs ==
    /\ pc = "deduped"
    /\ \E tag \in DataTags :
          /\ data_tag' = tag
          /\ kept' = RemoveOovs(grams, heap, tag)
    /\ pc' = "filtered"
    /\ UNCHANGED <<genVars, grams, winVars, dsVars, parseVars, elecVars, colVars>>

\* add_begin_end_tokens(x[0], ...) once for each x of kept
AnnotateAll ==
    /\ pc = "filtered"
    /\ heap' = AnnotateFrom(heap, kept, 1)
    /\ pc' = "annotated"
    /\ UNCHANGED <<examples, my_grams, k, emitted, pipeVars, winVars, dsVars, parseVars, elecVars, colVars>>

PipeNext == GenStep \/ GenReturn \/ Dedup \/ FilterOovs \/ AnnotateAll
SpecPipe == PipeInit /\ [][PipeNext]_vars

\* remove_oovs on its own: any list of grams with one to three tokens each.
OovTokLists == SeqsOf({UNK, WordA}, 1, 3)
OovInit ==
    /\ pc = "deduped"
    /\ \E n \in 0..MaxGrams : \E lists \in [1..n -> OovTokLists] :
          /\ heap = lists
          /\ grams = [i \in 1..n |-> Tuple(i, TRUE, i, i + 1)]
    /\ kept = <<>>
    /\ data_tag = None
    /\ examples = <<>>
    /\ my_grams = <<>>
    /\ k = 1
    /\ emitted = <<>>
    /\ WinIdle /\ DsIdle /\ ParseIdle /\ ElecIdle /\ ColIdle

SpecOov == OovInit /\ [][FilterOovs]_vars

(***************************************************************************)
(* Claims about remove_oovs and the pipeline                               *)
(***************************************************************************)
GramToks(i) == heap[grams[i].tok]
KeepIdx ==
    {i \in 1..Len(grams) :
        IF data_tag = "train"
        THEN \A p \in 1..Len(GramToks(i)) : GramToks(i)[p] # UNK
        ELSE GramToks(i) # <<UNK, UNK>>}
Rank(i) == Cardinality({j \in KeepIdx : j <= i})

\* C2: with data_tag = 'train' the output holds exactly the input examples
\* with no <unk> at any position, with any other tag exactly those whose
\* tokens are not [<unk>, <unk>] (so [<unk>, w] is kept under eval, dropped
\* under train); the kept examples are in input order.
C2_RemoveOovs ==
    pc = "filtered" =>
        /\ Len(kept) = Cardinality(KeepIdx)
        /\ \A i \in KeepIdx : kept[Rank(i)] = grams[i]
        /\ \A i \in 1..Len(grams) : GramToks(i) = <<UNK, WordA>> =>
              IF data_tag = "train"
              THEN \A j \in 1..Len(kept) : kept[j] # grams[i]
              ELSE \E j \in 1..Len(kept) : kept[j] = grams[i]

\* Under eval a partially-unknown pair is kept, an all-unknown pair dropped.
C2_Witness ==
    /\ pc = "filtered"
    /\ data_tag = "eval"
    /\ Len(grams) = 3
    /\ GramToks(1) = <<UNK, UNK>>
    /\ GramToks(2) = <<UNK, WordA>>
    /\ GramToks(3) = <<WordA, WordA>>
    /\ kept = <<grams[2], grams[3]>>

\* C10: after generate_wordpairs, remove_duplicates, remove_oovs and one
\* add_begin_end_tokens per surviving example, every label is
\* [start, a, b, stop] of length 4 (no list was annotated twice), so the
\* dataset does not skip it for its label length.
C10_PipelineLabels ==
    pc = "annotated" =>
        \A j \in 1..Len(kept) :
            LET label == heap[kept[j].tok]
            IN  /\ Len(label) = 4
                /\ label[1] = START
                /\ label[2] \in {UNK, WordA}
                /\ label[3] \in {UNK, WordA}
                /\ label[4] = STOP
                /\ ~Skipped(0, Len(label))
                /\ ~Skipped(MaxSegLen, Len(label))

\* The generator emitted one list twice and the pipeline annotated its
\* single surviving copy.
C10_Witness ==
    /\ pc = "annotated"
    /\ \E i, j \in 1..Len(my_grams) :
          /\ i # j
          /\ my_grams[i].tok = my_grams[j].tok
          /\ \E x \in 1..Len(kept) :
                /\ kept[x].on = my_grams[i].on
                /\ heap[kept[x].tok] = <<START>> \o heap[my_grams[i].tok] \o <<STOP>>

(***************************************************************************)
(* test_for_bad_window                                                     *)
(***************************************************************************)
\* The test without the upper bound on stop.
TestForBadWindowNoUpper(start, stop, shape0, window) ==
    start < 0 \/ start > shape0 \/ stop < 0
        \/ stop - start < window \/ stop - start < 0

TestForBadWindow(start, stop, shape0, window) ==
    start < 0 \/ start > shape0 \/ stop < 0 \/ stop > shape0
        \/ stop - start < window \/ stop - start < 0

WinInit ==
    /\ pc = "win"
    /\ win \in [start : -1..(MaxT + 1), stop : -1..(MaxT + 2),
                 T : 0..MaxT, window : -1..MaxT]
    /\ bad = None
    /\ GenIdle /\ PipeIdle /\ DsIdle /\ ParseIdle /\ ElecIdle /\ ColIdle

TestWindow ==
    /\ pc = "win"
    /\ bad' = TestForBadWindow(win.start, win.stop, win.T, win.window)
    /\ pc' = "win_done"
    /\ UNCHANGED <<win, genVars, pipeVars, dsVars, parseVars, elecVars, colVars>>

SpecWindow == WinInit /\ [][TestWindow]_vars

Max(a, b) == IF a >= b THEN a ELSE b

\* C3 as stated: the window is reported invalid exactly when start < 0,
\* start > T, stop < 0, stop - start < window or stop - start < 0, and a
\* window with 0 <= start <= T, stop > T and stop - start >= max(window, 0)
\* is reported valid.
C3_Original ==
    pc = "win_done" =>
        /\ bad = (win.start < 0 \/ win.start > win.T \/ win.stop < 0
                    \/ win.stop - win.start < win.window
                    \/ win.stop - win.start < 0)
        /\ (0 <= win.start /\ win.start <= win.T /\ win.stop > win.T
              /\ win.stop - win.start >= Max(win.window, 0)) => bad = FALSE

\* C3 amended: the window is reported valid exactly when
\* 0 <= start <= stop <= T and stop - start >= window; in particular a
\* window with stop > T is reported invalid.
C3_BadWindow ==
    pc = "win_done" =>
        /\ bad = ~(0 <= win.start /\ win.start <= win.stop /\ win.stop <= win.T
                     /\ win.stop - win.start >= win.window)
        /\ win.stop > win.T => bad = TRUE

\* A window that is fine except for its end lying past the signal.
C3_Witness ==
    /\ pc = "win_done"
    /\ 0 <= win.start /\ win.start <= win.T /\ win.stop > win.T
    /\ win.stop - win.start >= Max(win.window, 0)
    /\ bad = TRUE

(***************************************************************************)
(* Brain2enDataset.__init__, __len__, __getitem__                          *)
(***************************************************************************)
SegLens == {10, MaxSegLen, MaxSegLen + 1, 500}
LabLens == {MinLabelLen - 1, MinLabelLen, MaxLabelLen, MaxLabelLen + 1}

\* indices.sort(key=lambda x: (x[1], x[2], x[0]))
KeyLess(sig, lab, i, j) ==
    \/ sig[i] < sig[j]
    \/ sig[i] = sig[j] /\ lab[i] < lab[j]
    \/ sig[i] = sig[j] /\ lab[i] = lab[j] /\ i < j
SortedIndices(sig, lab) ==
    [p \in 1..Len(sig) |->
        CHOOSE i \in 1..Len(sig) :
            Cardinality({j \in 1..Len(sig) : KeyLess(sig, lab, j, i)}) = p - 1]

\* A stored example (signals[i], labels[i]): the input it was made from and
\* the two lengths.
Example(sig, lab, i) == [src |-> i, seg |-> sig[i], lab |-> lab[i]]

RECURSIVE BuildFrom(_, _, _, _, _)
BuildFrom(sig, lab, indices, p, acc) ==
    IF p > Len(indices) THEN acc
    ELSE LET i == indices[p]
         IN  IF Skipped(sig[i], lab[i])
             THEN BuildFrom(sig, lab, indices, p + 1, [acc EXCEPT !.c = @ + 1])
             ELSE BuildFrom(sig, lab, indices, p + 1,
                    [acc EXCEPT !.examples = Append(@, Example(sig, lab, i)),
                                !.train_freq_total = @ + lab[i],
                                !.max_seq_len = Max(@, sig[i]),
                                !.max_sent_len = Max(@, lab[i])])

\* __init__; train_freq is kept as the total of its counts, the label
\* tokens themselves being left out of the model.
NewDataset(sig, lab) ==
    BuildFrom(sig, lab, SortedIndices(sig, lab), 1,
        [examples |-> <<>>, max_seq_len |-> 0, max_sent_len |-> 0,
         train_freq_total |-> 0, c |-> 0])

\* __len__
DatasetLen(d) == Len(d.examples)

NoExample == [src |-> 0, seg |-> 0, lab |-> 0]
IndexError == [raised |-> "IndexError", item |-> NoExample]
Returned(x) == [raised |-> None, item |-> x]

\* Indexing that rejects every negative index.
GetItemNoNegative(d, i) ==
    IF 0 <= i /\ i < Len(d.examples) THEN Returned(d.examples[i + 1]) ELSE IndexError

\* __getitem__: self.examples[idx] on a Python list
GetItem(d, i) ==
    IF 0 <= i /\ i < Len(d.examples) THEN Returned(d.examples[i + 1])
    ELSE IF -Len(d.examples) <= i /\ i < 0
         THEN Returned(d.examples[Len(d.examples) + i + 1])
         ELSE IndexError

DsInit ==
    /\ pc = "ds"
    /\ \E n \in 0..MaxN :
          /\ signals \in [1..n -> SegLens]
          /\ labels \in [1..n -> LabLens]
    /\ ds = None
    /\ idx = None
    /\ got = None
    /\ GenIdle /\ PipeIdle /\ WinIdle /\ ParseIdle /\ ElecIdle /\ ColIdle

Construct ==
    /\ pc = "ds"
    /\ ds' = NewDataset(signals, labels)
    /\ pc' = "ds_built"
    /\ UNCHANGED <<signals, labels, idx, got, genVars, pipeVars, winVars,
                   parseVars, elecVars, colVars>>

Read ==
    /\ pc = "ds_built"
    /\ \E i \in -(MaxN + 1)..(MaxN + 1) :
          /\ idx' = i
          /\ got' = GetItem(ds, i)
    /\ pc' = "ds_read"
    /\ UNCHANGED <<signals, labels, ds, genVars, pipeVars, winVars,
                   parseVars, elecVars, colVars>>

DsNext == Construct \/ Read
SpecDataset == DsInit /\ [][DsNext]_vars

Retained == {i \in 1..Len(signals) :
                signals[i] <= 384 /\ 4 <= labels[i] /\ labels[i] <= 128}
Stored == {ds.examples[p].src : p \in 1..Len(ds.examples)}

\* C4: the dataset holds exactly the inputs with segment_length <= 384 and
\* 4 <= label_length <= 128, each once, in ascending order of
\* (segment_length, label_length, original_index); len(dataset) is N minus
\* the number skipped, and one input of segment_length 500 gives an empty
\* dataset.
C4_DatasetFilter ==
    pc \in {"ds_built", "ds_read"} =>
        /\ Stored = Retained
        /\ DatasetLen(ds) = Cardinality(Retained)
        /\ \A p \in 1..Len(ds.examples) :
              /\ ds.examples[p].seg = signals[ds.examples[p].src]
              /\ ds.examples[p].lab = labels[ds.examples[p].src]
        /\ \A p, q \in 1..Len(ds.examples) : p < q =>
              LET a == ds.examples[p]
                  b == ds.examples[q]
              IN  \/ a.seg < b.seg
                  \/ a.seg = b.seg /\ a.lab < b.lab
                  \/ a.seg = b.seg /\ a.lab = b.lab /\ a.src < b.src
        /\ ds.c = Len(signals) - Cardinality(Retained)
        /\ DatasetLen(ds) = Len(signals) - ds.c
        /\ (Len(signals) = 1 /\ signals[1] = 500) => DatasetLen(ds) = 0

\* Three inputs: one too long, two retained and stored in the order opposite
\* to their input order.
C4_Witness ==
    /\ pc = "ds_built"
    /\ Len(signals) = 3
    /\ signals[1] = 500
    /\ signals[2] = MaxSegLen /\ labels[2] = MaxLabelLen
    /\ signals[3] = 10 /\ labels[3] = MinLabelLen
    /\ ds.c = 1
    /\ DatasetLen(ds) = 2
    /\ ds.examples[1].src = 3 /\ ds.examples[2].src = 2

\* C7 as stated: dataset[idx] returns the example at position idx when
\* 0 <= idx < count and fails with an out-of-range error for every other
\* integer idx, every negative idx included.
C7_Original ==
    pc = "ds_read" =>
        IF 0 <= idx /\ idx < DatasetLen(ds)
        THEN got = Returned(ds.examples[idx + 1])
        ELSE got = IndexError

\* C7 amended: dataset[idx] returns the example at position idx when
\* 0 <= idx < count, the example at position count + idx when
\* -count <= idx < 0, and fails with an out-of-range error for idx >= count
\* and for idx < -count.
C7_GetItem ==
    pc = "ds_read" =>
        LET count == DatasetLen(ds)
        IN  /\ (0 <= idx /\ idx < count) => got = Returned(ds.examples[idx + 1])
            /\ (-count <= idx /\ idx < 0) => got = Returned(ds.examples[count + idx + 1])
            /\ (idx >= count \/ idx < -count) => got = IndexError

\* A read at -1 of a dataset of two examples returned the last one, and so
\* did not fail.
C7_Witness ==
    /\ pc = "ds_read"
    /\ DatasetLen(ds) = 2
    /\ idx = -1
    /\ got = Returned(ds.examples[2])
    /\ ds.examples[1] # ds.examples[2]

(***************************************************************************)
(* return_examples                                                         *)
(*                                                                         *)
(* A line is the sequence of its fields after split(delim).  A text field  *)
(* is a sequence of characters; a numeric field is the decimal number it   *)
(* spells, held in tenths (27 spells "2.7").                               *)
(***************************************************************************)
Whitespace == {" ", "\n", "\t"}
UpperCase == <<"A", "B", "C", "D", "E", "F", "G", "H", "I", "J", "K", "L", "M",
               "N", "O", "P", "Q", "R", "S", "T", "U", "V", "W", "X", "Y", "Z">>
LowerCase == <<"a", "b", "c", "d", "e", "f", "g", "h", "i", "j", "k", "l", "m",
               "n", "o", "p", "q", "r", "s", "t", "u", "v", "w", "x", "y", "z">>

\* str.lower
LowerChar(c) ==
    IF \E i \in 1..Len(UpperCase) : UpperCase[i] = c
    THEN LowerCase[CHOOSE i \in 1..Len(UpperCase) : UpperCase[i] = c]
    ELSE c
Lower(str) == [i \in 1..Len(str) |-> LowerChar(str[i])]

\* str.strip
RECURSIVE LStrip(_)
LStrip(str) ==
    IF str # <<>> /\ Head(str) \in Whitespace THEN LStrip(Tail(str)) ELSE str
RECURSIVE RStrip(_)
RStrip(str) ==
    IF str # <<>> /\ str[Len(str)] \in Whitespace
    THEN RStrip(SubSeq(str, 1, Len(str) - 1))
    ELSE str
Strip(str) == RStrip(LStrip(str))

\* str.replace('"', '')
IsNotQuote(c) == c # "\""
RemoveQuotes(str) == SelectSeq(str, IsNotQuote)

\* " ".join
RECURSIVE Join(_)
Join(words) ==
    IF words = <<>> THEN <<>>
    ELSE IF Len(words) = 1 THEN words[1]
    ELSE words[1] \o <<" ">> \o Join(Tail(words))

\* int(float(x)) of a number held in tenths: float() reads it, int() cuts
\* the fraction off towards zero.
IntOfFloat(tenths) == IF tenths >= 0 THEN tenths \div 10 ELSE -((-tenths) \div 10)

\* vocabulary.EncodeAsIds, a tokenizer outside this file: its result is
\* known only as a function of the text.
EncodeAsIds(text) == [ids_of |-> text]

ExWords == {<<"u", "h">>}
Speaker1 == <<"S", "p", "e", "a", "k", "e", "r", "1">>

\* x[0:-4], and x[-m] for a line that has it
TextFields(x) == SubSeq(x, 1, Len(x) - 4)
FromEnd(x, m) == x[Len(x) - m + 1]

\* The first map's text: the cleaned fields outside ex_words, joined.
Cleaned(y) == RemoveQuotes(Strip(Lower(y)))
NotExcluded(y) == Cleaned(y) \notin ExWords
JoinedText(x) ==
    LET keptFields == SelectSeq(TextFields(x), NotExcluded)
    IN  Join([i \in 1..Len(keptFields) |-> Cleaned(keptFields[i])])

\* The tuple of a line with onset and offset read one column to the right.
ExampleOfLineShifted(x) ==
    [tokens |-> EncodeAsIds(JoinedText(x)),
     spk |-> (Strip(FromEnd(x, 1)) = Speaker1),
     on |-> IntOfFloat(FromEnd(x, 3)),
     off |-> IntOfFloat(FromEnd(x, 2))]

\* The tuple the two maps make of a line of at least four fields.
ExampleOfLine(x) ==
    [tokens |-> EncodeAsIds(JoinedText(x)),
     spk |-> (Strip(FromEnd(x, 1)) = Speaker1),
     on |-> IntOfFloat(FromEnd(x, 4)),
     off |-> IntOfFloat(FromEnd(x, 3))]

Survives(x) == Len(JoinedText(x)) > 0

\* list(examples): x[-4] raises IndexError on a line of fewer than 4 fields.
ReturnExamples(ls) ==
    IF \E i \in 1..Len(ls) : Len(ls[i]) < 4
    THEN [raised |-> "IndexError", examples |-> <<>>]
    ELSE LET surviving == SelectSeq(ls, Survives)
         IN  [raised |-> None,
              examples |-> [j \in 1..Len(surviving) |-> ExampleOfLine(surviving[j])]]

Words == {<<"H", "i">>, <<"u", "h">>, <<"\"", "\"">>}
SpeakerFields == {Speaker1 \o <<"\n">>, <<"S", "p", "e", "a", "k", "e", "r", "2", "\n">>,
                  <<" ">> \o Speaker1}
\* onset, offset and a fourth trailing column, as the transcripts have them
WellFormedLines ==
    {text \o <<-15, 31, 10, spk>> :
        text \in SeqsOf(Words, 0, 2), spk \in SpeakerFields}
ShortLines == {<<31, 10, Speaker1 \o <<"\n">>>>}

ParseInit ==
    /\ pc = "parse"
    /\ \E n \in 0..MaxLines : lines \in [1..n -> WellFormedLines \cup ShortLines]
    /\ parsed = None
    /\ GenIdle /\ PipeIdle /\ WinIdle /\ DsIdle /\ ElecIdle /\ ColIdle

Parse ==
    /\ pc = "parse"
    /\ parsed' = ReturnExamples(lines)
    /\ pc' = "parse_done"
    /\ UNCHANGED <<lines, genVars, pipeVars, winVars, dsVars, elecVars, colVars>>

SpecParse == ParseInit /\ [][Parse]_vars

SurvivingIdx == {i \in 1..Len(lines) : Survives(lines[i])}
SurvivorRank(i) == Cardinality({j \in SurvivingIdx : j <= i})

\* C5 as stated: every surviving line gives a tuple with
\* is_target_speaker = (last field == "Speaker1"),
\* onset = int(float(third-from-last field)) and
\* offset = int(float(second-from-last field)).
C5_Original ==
    (pc = "parse_done" /\ parsed.raised = None) =>
        /\ Len(parsed.examples) = Cardinality(SurvivingIdx)
        /\ \A i \in SurvivingIdx :
              LET x == lines[i]
                  e == parsed.examples[SurvivorRank(i)]
              IN  /\ e.spk = (x[Len(x)] = Speaker1)
                  /\ e.on = IntOfFloat(x[Len(x) - 2])
                  /\ e.off = IntOfFloat(x[Len(x) - 1])

\* C5 amended: every surviving line gives a tuple with
\* is_target_speaker = (last field, stripped of surrounding whitespace, ==
\* "Speaker1"), onset = int(float(fourth-from-last field)) and
\* offset = int(float(third-from-last field)); the text is built from all
\* fields except the last four.
C5_FieldMapping ==
    (pc = "parse_done" /\ parsed.raised = None) =>
        /\ Len(parsed.examples) = Cardinality(SurvivingIdx)
        /\ \A i \in SurvivingIdx :
              LET x == lines[i]
                  e == parsed.examples[SurvivorRank(i)]
              IN  /\ e.spk = (Strip(x[Len(x)]) = Speaker1)
                  /\ e.on = IntOfFloat(x[Len(x) - 3])
                  /\ e.off = IntOfFloat(x[Len(x) - 2])
                  /\ e.tokens = EncodeAsIds(JoinedText(x))

\* A line 'Hi,-1.5,3.1,1.0,Speaker1\n' was parsed to onset -1, offset 3 and
\* the target speaker.
C5_Witness ==
    /\ pc = "parse_done"
    /\ parsed.raised = None
    /\ Len(lines) = 2
    /\ lines[2] = <<<<"H", "i">>, -15, 31, 10, Speaker1 \o <<"\n">>>>
    /\ ~Survives(lines[1])
    /\ parsed.examples =
          <<[tokens |-> EncodeAsIds(<<"h", "i">>), spk |-> TRUE, on |-> -1, off |-> 3]>>

(***************************************************************************)
(* get_electrode, return_electrode_array                                   *)
(*                                                                         *)
(* files[e] is the length of the series in the file glob finds for         *)
(* electrode e, 0 when glob finds none.                                    *)
(***************************************************************************)
ElectrodeIds == 1..NumElectrodes
SeriesLens == {2, 3}

\* get_electrode returns None for an electrode without a file
Missing(f, e) == f[e] = 0
IsFound(f, e) == ~Missing(f, e)

\* The warnings printed by the workers, counted per electrode (the workers
\* run in parallel, so the order of the prints is not fixed).
WarningsFor(el, f) ==
    [e \in ElectrodeIds |-> Cardinality({p \in 1..Len(el) : el[p] = e /\ Missing(f, e)})]

\* filter(lambda x: x is not None, pool.map(get_electrode, elec_ids))
FoundOf(el, f) == LET Found(e) == IsFound(f, e) IN SelectSeq(el, Found)

\* return_electrode_array: np.asarray of no series, or of series of unequal
\* length, is not a matrix and numpy raises on it; the assert is skipped
\* under -O.
ReturnElectrodeArray(el, f, opt) ==
    LET found == FoundOf(el, f)
    IN  IF found = <<>> \/ \E p, q \in 1..Len(found) : f[found[p]] # f[found[q]]
        THEN [raised |-> "NumpyError", columns |-> <<>>, rows |-> 0]
        ELSE IF ~opt /\ Len(found) # Len(el)
        THEN [raised |-> "AssertionError", columns |-> <<>>, rows |-> 0]
        ELSE [raised |-> None, columns |-> found, rows |-> f[found[1]]]

ElecInit ==
    /\ pc = "load"
    /\ \E n \in 0..MaxElect : elect \in [1..n -> ElectrodeIds]
    /\ files \in [ElectrodeIds -> {0} \cup SeriesLens]
    /\ optimized \in BOOLEAN
    /\ warnings = None
    /\ ecogs = None
    /\ GenIdle /\ PipeIdle /\ WinIdle /\ DsIdle /\ ParseIdle /\ ColIdle

Load ==
    /\ pc = "load"
    /\ warnings' = WarningsFor(elect, files)
    /\ ecogs' = ReturnElectrodeArray(elect, files, optimized)
    /\ pc' = "load_done"
    /\ UNCHANGED <<elect, files, optimized, genVars, pipeVars, winVars, dsVars,
                   parseVars, colVars>>

SpecElectrode == ElecInit /\ [][Load]_vars

MissingPositions == {p \in 1..Len(elect) : files[elect[p]] = 0}
FoundPositions == {p \in 1..Len(elect) : files[elect[p]] # 0}

\* C6: when one or more but not all of the requested electrodes have no
\* file (and the files found hold series of one length), the load does not
\* fail: it warns once per missing electrode and returns a matrix with one
\* column per electrode found, fewer than requested, in input order.
C6_MissingElectrode ==
    (/\ pc = "load_done"
     /\ MissingPositions # {}
     /\ FoundPositions # {}
     /\ \A p, q \in FoundPositions : files[elect[p]] = files[elect[q]]) =>
        /\ ecogs.raised = None
        /\ Len(ecogs.columns) = Cardinality(FoundPositions)
        /\ Len(ecogs.columns) < Len(elect)
        /\ \A p \in FoundPositions :
              ecogs.columns[Cardinality({q \in FoundPositions : q <= p})] = elect[p]
        /\ \A e \in ElectrodeIds :
              warnings[e] = Cardinality({p \in MissingPositions : elect[p] = e})

(***************************************************************************)
(* MyCollator.__call__, MyCollator.masks                                   *)
(*                                                                         *)
(* A signal is the sequence of its frames, a frame being one number.       *)
(***************************************************************************)
Repeat(x, n) == [i \in 1..n |-> x]
PadTo(seq, n, x) == seq \o Repeat(x, n - Len(seq))
RECURSIVE MaxOver(_, _)
MaxOver(lens, i) == IF i > Len(lens) THEN 0 ELSE Max(lens[i], MaxOver(lens, i + 1))

\* pad_sequence(..., batch_first=True, padding_value=x)
PadSequence(seqs, x) ==
    LET longest == MaxOver([b \in 1..Len(seqs) |-> Len(seqs[b])], 1)
    IN  [b \in 1..Len(seqs) |-> PadTo(seqs[b], longest, x)]

\* torch.zeros(...).scatter_(2, labels.unsqueeze(-1), 1)
OneHot(id) == [v \in 0..(VocabSize - 1) |-> IF v = id THEN 1 ELSE 0]

\* masks: the causal mask of width n, and the mask of the pad positions
PosMask(n) == <<[i \in 1..n |-> [j \in 1..n |-> IF j <= i THEN "0.0" ELSE "-inf"]]>>
PadMask(rows) == [b \in 1..Len(rows) |-> [p \in 1..Len(rows[b]) |-> rows[b][p] = PAD]]

AllButLast(seq) == SubSeq(seq, 1, Len(seq) - 1)
AllButFirst(seq) == SubSeq(seq, 2, Len(seq))

\* __call__ with the masks taken from the labels before the shift.
CollateUnshifted(bt) ==
    LET padded == PadSequence([b \in 1..Len(bt) |-> bt[b].lab], PAD)
        trg_y == [b \in 1..Len(bt) |-> AllButFirst(padded[b])]
        unshifted == [b \in 1..Len(bt) |-> AllButLast(padded[b])]
    IN  [src |-> PadSequence([b \in 1..Len(bt) |-> bt[b].sig], 0),
         trg |-> [b \in 1..Len(bt) |->
                    [p \in 1..(Len(padded[b]) - 1) |-> OneHot(padded[b][p])]],
         trg_y |-> trg_y,
         pos_mask |-> PosMask(Len(trg_y[1])),
         pad_mask |-> PadMask(unshifted)]

\* __call__ on a non-empty batch
Collate(bt) ==
    LET padded == PadSequence([b \in 1..Len(bt) |-> bt[b].lab], PAD)
        trg_y == [b \in 1..Len(bt) |-> AllButFirst(padded[b])]
    IN  [src |-> PadSequence([b \in 1..Len(bt) |-> bt[b].sig], 0),
         trg |-> [b \in 1..Len(bt) |->
                    [p \in 1..(Len(padded[b]) - 1) |-> OneHot(padded[b][p])]],
         trg_y |-> trg_y,
         pos_mask |-> PosMask(Len(trg_y[1])),
         pad_mask |-> PadMask(trg_y)]

\* Labels start, WordA, ..., WordA, stop of n ids, and the same with the pad
\* id at one position.
PlainLabel(n) ==
    [i \in 1..n |-> IF i = 1 THEN START ELSE IF i = n THEN STOP ELSE WordA]
BatchLabels ==
    UNION {{PlainLabel(n)} \cup {[PlainLabel(n) EXCEPT ![p] = PAD] : p \in 1..n} :
                n \in 1..MaxLabel}
BatchSignals == {Repeat(1, n) : n \in 1..2}

ColInit ==
    /\ pc = "collate"
    /\ \E n \in 1..MaxBatch : batch \in [1..n -> [sig : BatchSignals, lab : BatchLabels]]
    /\ collated = None
    /\ GenIdle /\ PipeIdle /\ WinIdle /\ DsIdle /\ ParseIdle /\ ElecIdle

Call ==
    /\ pc = "collate"
    /\ collated' = Collate(batch)
    /\ pc' = "collated"
    /\ UNCHANGED <<batch, genVars, pipeVars, winVars, dsVars, parseVars, elecVars>>

SpecCollate == ColInit /\ [][Call]_vars

LabelLen(b) == Len(batch[b].lab)
Longest == CHOOSE n \in 0..(MaxLabel + 1) :
              /\ \E b \in 1..Len(batch) : LabelLen(b) = n
              /\ \A b \in 1..Len(batch) : LabelLen(b) <= n
NoPadInLabels ==
    \A b \in 1..Len(batch) : \A p \in 1..LabelLen(b) : batch[b].lab[p] # PAD
TrueIn(row) == {p \in 1..Len(row) : row[p] = TRUE}

\* C8: for labels of lengths len_b with maximum L, none holding the pad id,
\* trg_y has L-1 columns, column k (from 0) holding padded label column k+1,
\* and pad_mask[b][k] is true exactly for k >= len_b - 1: in the L - len_b
\* trailing positions of row b and nowhere else.  (Positions below are
\* counted from 1, so column k is position k + 1.)
C8_PadMask ==
    (pc = "collated" /\ NoPadInLabels) =>
        \A b \in 1..Len(batch) :
            /\ Len(collated.trg_y[b]) = Longest - 1
            /\ Len(collated.pad_mask[b]) = Longest - 1
            /\ \A p \in 1..(Longest - 1) :
                  /\ collated.trg_y[b][p] =
                        IF p + 1 <= LabelLen(b) THEN batch[b].lab[p + 1] ELSE PAD
                  /\ collated.pad_mask[b][p] = (p - 1 >= LabelLen(b) - 1)
            /\ TrueIn(collated.pad_mask[b]) = LabelLen(b)..(Longest - 1)
            /\ Cardinality(TrueIn(collated.pad_mask[b])) = Longest - LabelLen(b)

\* Label lengths 3 and 5: the mask is true in the 2 trailing positions of
\* the shorter row only.
C8_Witness ==
    /\ pc = "collated"
    /\ NoPadInLabels
    /\ Len(batch) = 2
    /\ LabelLen(1) = 3 /\ LabelLen(2) = 5
    /\ collated.pad_mask = <<<<FALSE, FALSE, TRUE, TRUE>>, <<FALSE, FALSE, FALSE, FALSE>>>>

====
